---------------------------- MODULE Spec2Model ----------------------------
(***************************************************************************)
(* CStorage (src/src/test2.ts, lines 109-299): a convenience layer over    *)
(* the storage client.  Strings are sequences of one-character strings, so *)
(* that slice, indexing and concatenation are computed, not assumed.       *)
(* An optional field is a record [some, val].                              *)
(*                                                                         *)
(* Every await of a backend call is a yield point: an operation is one     *)
(* Call action (the synchronous part up to the first request) and one      *)
(* Reply action per backend response (the continuation up to the next      *)
(* request or to the end of the operation).                                *)
(*                                                                         *)
(* The backend is the storage client the class is constructed with.  A     *)
(* reply is either data or an error; any call may report an error.  The    *)
(* backend keeps, per bucket, a set of keys whose segments are non-empty,  *)
(* so that its list operation describes a finite tree.                     *)
(***************************************************************************)
EXTENDS Naturals, Sequences, FiniteSets, Bags

(* -------------------------- bounds ------------------------------------- *)
\* longest paths array handed to delete
MaxDeletePaths == 2
\* setBucketName calls that may interleave with one in-flight operation
MaxRaces == 1
\* expansions of rejected deletes that may still be running
MaxOrphans == 1

(* -------------------------- strings ------------------------------------ *)
SLASH == <<"/">>
UNDEFINED_TEXT == <<"u","n","d","e","f","i","n","e","d">>

None == [some |-> FALSE, val |-> <<>>]
Some(v) == [some |-> TRUE, val |-> v]

\* String.prototype.slice(n) for n >= 0
Slice(s, n) == IF n >= Len(s) THEN <<>> ELSE SubSeq(s, n + 1, Len(s))

StartsWith(s, p) == Len(p) <= Len(s) /\ SubSeq(s, 1, Len(p)) = p

\* `${x}` of an optional string
Template(o) == IF o.some THEN o.val ELSE UNDEFINED_TEXT

(* -------------------------- inputs ------------------------------------- *)
B0 == <<"x">>
B1 == <<"y","y">>
\* the bucket ids the backend holds or creates: createBucket of any other id
\* is answered with an error, and a call on one is a call on a missing bucket
RealBuckets == {B0}
\* arguments of setBucketName: the empty string is a string too
BucketNames == {<<>>, B0, B1}

K_a == <<"a">>
K_da == <<"d","/","a">>
K_dbc == <<"d","/","b","/","c">>
\* the order in which the backend lists what it stores
KeyOrder == <<K_da, K_a, K_dbc>>

\* the paths handed to listAllFiles, copy, upload and (in arrays) delete
ListPaths ==
    { <<>>, <<"a">>, <<"/">>, <<"/","a">>, <<"/","a","/">>, <<"/","d">>,
      <<"/","d","/","b">> }
CopyPaths == { <<>>, <<"a">>, <<"/","a">>, <<"/","d","/","a">> }
UploadPaths == { <<"a">>, <<"/","a">>, <<"/","a","/">>, <<"/","d","/","a">> }
DeletePaths == { <<"a">>, <<"/","a">>, <<"/","d">> }

RECURSIVE SeqsUpTo(_, _)
SeqsUpTo(S, n) ==
    IF n = 0 THEN { <<>> }
    ELSE LET shorter == SeqsUpTo(S, n - 1)
         IN  shorter \cup { Append(q, x) : q \in shorter, x \in S }

(* -------------------------- CStorage: pure parts ----------------------- *)
\* !this.BUCKET_NAME is false: the name is neither undefined nor ""
BucketSelectedMutant(name) == name.some
BucketSelected(name) == name.some /\ name.val # <<>>

\* path[0] === "/"
HasSlashPrefixMutant(path) == TRUE
HasSlashPrefix(path) == Len(path) > 0 /\ path[1] = "/"

\* if (path[0] === "/") path = path.slice(1)
StripLeadingSlashMutant(path) == path
StripLeadingSlash(path) == IF HasSlashPrefix(path) THEN Slice(path, 1) ELSE path

\* list.map((item) => `${path}/${item.name}`)
ChildPaths(path, names) ==
    [i \in 1..Len(names) |-> path \o SLASH \o names[i]]

\* (await Promise.all(...)).flat()
RECURSIVE FlatMutant(_)
FlatMutant(results) ==
    IF results = <<>> THEN <<>>
    ELSE FlatMutant(Tail(results)) \o Head(results)
RECURSIVE Flat(_)
Flat(results) ==
    IF results = <<>> THEN <<>>
    ELSE Head(results) \o Flat(Tail(results))

\* for (let file of data) tmp.push("/" + file.name)
DeleteReturn(data) == [i \in 1..Len(data) |-> SLASH \o data[i]]

\* data.path.slice(this.BUCKET_NAME.length)
CopyReturn(dataPath, name) == Slice(dataPath, Len(name.val))

\* "/" + data.path
UploadReturnMutant(dataPath) == dataPath
UploadReturn(dataPath) == SLASH \o dataPath

(* -------------------------- backend ------------------------------------ *)
\* getPublicUrl(""): the storage URL, the bucket id and a closing "/"
PublicUrl(name) == <<"U">> \o Template(name) \o SLASH

RECURSIVE CollapseSlashes(_)
CollapseSlashes(s) ==
    IF Len(s) < 2 THEN s
    ELSE IF s[1] = "/" /\ s[2] = "/" THEN CollapseSlashes(Tail(s))
    ELSE <<s[1]>> \o CollapseSlashes(Tail(s))

\* path.replace(/^\/|\/$/g, '').replace(/\/+/g, '/')
RemoveEmptyFolders(path) ==
    LET a == IF Len(path) > 0 /\ path[1] = "/" THEN Tail(path) ELSE path
        b == IF Len(a) > 0 /\ a[Len(a)] = "/" THEN SubSeq(a, 1, Len(a) - 1) ELSE a
    IN  CollapseSlashes(b)

\* a key the backend stores: every segment is non-empty
ValidKey(k) ==
    /\ Len(k) > 0
    /\ k[1] # "/"
    /\ k[Len(k)] # "/"
    /\ \A i \in 1..(Len(k) - 1) : ~(k[i] = "/" /\ k[i + 1] = "/")

FirstSegment(s) ==
    LET slashes == { i \in 1..Len(s) : s[i] = "/" }
    IN  IF slashes = {} THEN s
        ELSE SubSeq(s, 1, (CHOOSE i \in slashes : \A j \in slashes : i <= j) - 1)

\* what is left of key k below the folder prefix; <<>> when k is not below it
Below(k, prefix) ==
    IF prefix = <<>> THEN k
    ELSE IF StartsWith(k, prefix \o SLASH) THEN Slice(k, Len(prefix) + 1)
    ELSE <<>>

RECURSIVE NamesIn(_, _, _, _)
NamesIn(stored, prefix, i, seen) ==
    IF i > Len(KeyOrder) THEN seen
    ELSE LET k == KeyOrder[i]
             rest == Below(k, prefix)
             name == FirstSegment(rest)
             had == \E j \in 1..Len(seen) : seen[j] = name
         IN  IF k \in stored /\ rest # <<>> /\ name # <<>> /\ ~had
             THEN NamesIn(stored, prefix, i + 1, Append(seen, name))
             ELSE NamesIn(stored, prefix, i + 1, seen)

\* list(prefix): the names of the direct children of the prefix
ChildNames(stored, prefix) == NamesIn(stored, prefix, 1, <<>>)

RECURSIVE StoredAmong(_, _, _)
StoredAmong(stored, keys, i) ==
    IF i > Len(KeyOrder) THEN <<>>
    ELSE LET k == KeyOrder[i]
             hit == k \in stored /\ \E j \in 1..Len(keys) : keys[j] = k
         IN  (IF hit THEN <<k>> ELSE <<>>) \o StoredAmong(stored, keys, i + 1)

\* remove(keys): the stored objects among the keys, each reported once
Removed(stored, keys) == StoredAmong(stored, keys, 1)


(* -------------------------- state -------------------------------------- *)
VARIABLES
    BUCKET_NAME,        \* CStorage.BUCKET_NAME
    BUCKET_URL_PREFIX,  \* CStorage.BUCKET_URL_PREFIX
    exists,             \* backend: the buckets that exist
    objects,            \* backend: the keys stored in each bucket
    op,                 \* the invocation in flight, or the last one finished
    tasks,              \* the listAllFiles expansions of the invocation
    calls,              \* the backend calls of the invocation, lists excepted
    result,             \* what the invocation resolved or rejected with
    lastData,           \* the data of the last successful backend reply
    lastSet,            \* the argument of the last setBucketName call
    objects0,           \* the backend's objects when the invocation started
    races,              \* setBucketName calls made while it was in flight
    orphans             \* expansions still running after their delete rejected

vars ==
    <<BUCKET_NAME, BUCKET_URL_PREFIX, exists, objects, op, tasks, calls,
      result, lastData, lastSet, objects0, races, orphans>>

Last(s) == s[Len(s)]
MarkLast(cs, r) == [cs EXCEPT ![Len(cs)].res = r]

Call(fn, bucket, keys, public) ==
    [fn |-> fn, bucket |-> bucket, keys |-> keys, public |-> public,
     res |-> "pending"]

NoResult == [st |-> "none", err |-> "", val |-> <<>>]
Ok(v) == [st |-> "ok", err |-> "", val |-> v]
Err(kind) == [st |-> "err", err |-> kind, val |-> <<>>]

Invocation(name, pc, a1, a2, paths, file, public) ==
    [name |-> name, pc |-> pc, a1 |-> a1, a2 |-> a2, paths |-> paths,
     file |-> file, public |-> public, start |-> BUCKET_NAME]
NoArgs(name, pc) == Invocation(name, pc, <<>>, <<>>, <<>>, FALSE, FALSE)

\* the promise of the last invocation has settled: the caller's await has
\* returned, whatever the expansions of a rejected delete are still doing
Idle == op.pc = "done"

getBucketName == BUCKET_NAME
getBucketURLPrefix == BUCKET_URL_PREFIX

Init ==
    /\ BUCKET_NAME = None
    /\ BUCKET_URL_PREFIX = None
    /\ exists = {B0}
    /\ objects = [b \in RealBuckets |-> IF b = B0 THEN {K_da, K_dbc} ELSE {}]
    /\ op = [name |-> "none", pc |-> "done", a1 |-> <<>>, a2 |-> <<>>,
             paths |-> <<>>, file |-> FALSE, public |-> FALSE, start |-> None]
    /\ tasks = <<>>
    /\ calls = <<>>
    /\ result = NoResult
    /\ lastData = <<>>
    /\ lastSet = None
    /\ objects0 = objects
    /\ races = 0
    /\ orphans = EmptyBag

\* the synchronous part of an invocation: what it leaves in flight
Started(o, cs, ts, r) ==
    /\ op' = o
    /\ calls' = cs
    /\ tasks' = ts
    /\ result' = r
    /\ lastData' = <<>>
    /\ objects0' = objects
    /\ races' = 0
    /\ UNCHANGED <<BUCKET_NAME, BUCKET_URL_PREFIX, lastSet, exists, objects,
                   orphans>>

Rejected(o, kind) == Started([o EXCEPT !.pc = "done"], <<>>, <<>>, Err(kind))

(* -------------------------- bucket name -------------------------------- *)
\* init(): the prefix of the bucket named now
InitPrefix(name) == Some(PublicUrl(name))

\* setBucketName(value): the assignment and the call of init() run in one
\* turn of the event loop; init() holds no await
SetName(value) ==
    /\ BUCKET_NAME' = Some(value)
    /\ BUCKET_URL_PREFIX' = InitPrefix(Some(value))
    /\ lastSet' = Some(value)

setBucketName ==
    /\ Idle
    /\ \E value \in BucketNames :
        /\ SetName(value)
        /\ op' = Invocation("setBucketName", "done", value, <<>>, <<>>,
                            FALSE, FALSE)
    /\ calls' = <<>>
    /\ tasks' = <<>>
    /\ result' = Ok(<<>>)
    /\ lastData' = <<>>
    /\ objects0' = objects
    /\ races' = 0
    /\ UNCHANGED <<exists, objects, orphans>>

\* setBucketName called while another operation awaits the backend
setBucketNameInFlight ==
    /\ ~Idle
    /\ races < MaxRaces
    /\ \E value \in BucketNames : SetName(value)
    /\ races' = races + 1
    /\ UNCHANGED <<exists, objects, op, tasks, calls, result, lastData,
                   objects0, orphans>>

\* init() called by itself: it is a public method
init ==
    /\ Idle
    /\ BUCKET_URL_PREFIX' = InitPrefix(BUCKET_NAME)
    /\ op' = NoArgs("init", "done")
    /\ calls' = <<>>
    /\ tasks' = <<>>
    /\ result' = Ok(<<>>)
    /\ lastData' = <<>>
    /\ objects0' = objects
    /\ races' = 0
    /\ UNCHANGED <<BUCKET_NAME, lastSet, exists, objects, orphans>>

(* -------------------------- initBucket --------------------------------- *)
\* if (error) after createBucket
NeedsUpdateMutant(error) == TRUE
NeedsUpdate(error) == error

initBucket ==
    /\ Idle
    /\ \E public \in BOOLEAN :
        LET o == Invocation("initBucket", "createBucket", <<>>, <<>>, <<>>,
                            FALSE, public)
        IN  IF ~BucketSelected(BUCKET_NAME)
            THEN Rejected(o, "BucketNotSelected")
            ELSE Started(o,
                         <<Call("createBucket", BUCKET_NAME.val, <<>>, public)>>,
                         <<>>, NoResult)

createBucketReply ==
    /\ op.pc = "createBucket"
    /\ \E fail \in BOOLEAN :
        LET target == Last(calls).bucket
            error == fail \/ target \notin RealBuckets \/ target \in exists
            marked == MarkLast(calls, IF error THEN "error" ELSE "ok")
        IN  /\ exists' = IF error THEN exists ELSE exists \cup {target}
            /\ IF NeedsUpdate(error)
               THEN /\ calls' = Append(marked, Call("updateBucket",
                                   BUCKET_NAME.val, <<>>, op.public))
                    /\ op' = [op EXCEPT !.pc = "updateBucket"]
                    /\ result' = result
               ELSE /\ calls' = marked
                    /\ op' = [op EXCEPT !.pc = "done"]
                    /\ result' = Ok(<<>>)
    /\ UNCHANGED <<BUCKET_NAME, BUCKET_URL_PREFIX, objects, tasks, lastData,
                   lastSet, objects0, races, orphans>>

updateBucketReply ==
    /\ op.pc = "updateBucket"
    /\ \E fail \in BOOLEAN :
        LET target == Last(calls).bucket
            error == fail \/ target \notin exists
        IN  /\ calls' = MarkLast(calls, IF error THEN "error" ELSE "ok")
            /\ result' = IF error THEN Err("BackendError") ELSE Ok(<<>>)
    /\ op' = [op EXCEPT !.pc = "done"]
    /\ UNCHANGED <<BUCKET_NAME, BUCKET_URL_PREFIX, exists, objects, tasks,
                   lastData, lastSet, objects0, races, orphans>>

(* -------------------------- destroyBucket ------------------------------ *)
destroyBucket ==
    /\ Idle
    /\ LET o == NoArgs("destroyBucket", "emptyBucket")
       IN  IF ~BucketSelected(BUCKET_NAME)
           THEN Rejected(o, "BucketNotSelected")
           ELSE Started(o, <<Call("emptyBucket", BUCKET_NAME.val, <<>>, FALSE)>>,
                        <<>>, NoResult)

\* the result of emptyBucket is not looked at
emptyBucketReply ==
    /\ op.pc = "emptyBucket"
    /\ \E fail \in BOOLEAN :
        LET target == Last(calls).bucket
            error == fail \/ target \notin exists
        IN  /\ objects' = IF error THEN objects
                          ELSE [objects EXCEPT ![target] = {}]
            /\ calls' = Append(MarkLast(calls, IF error THEN "error" ELSE "ok"),
                               Call("deleteBucket", BUCKET_NAME.val, <<>>, FALSE))
    /\ op' = [op EXCEPT !.pc = "deleteBucket"]
    /\ UNCHANGED <<BUCKET_NAME, BUCKET_URL_PREFIX, exists, tasks, result,
                   lastData, lastSet, objects0, races, orphans>>

\* nor is the result of deleteBucket
deleteBucketReply ==
    /\ op.pc = "deleteBucket"
    /\ \E fail \in BOOLEAN :
        LET target == Last(calls).bucket
            error == fail \/ target \notin exists \/ objects[target] # {}
        IN  /\ exists' = IF error THEN exists ELSE exists \ {target}
            /\ calls' = MarkLast(calls, IF error THEN "error" ELSE "ok")
    /\ op' = [op EXCEPT !.pc = "done"]
    /\ result' = Ok(<<>>)
    /\ UNCHANGED <<BUCKET_NAME, BUCKET_URL_PREFIX, objects, tasks, lastData,
                   lastSet, objects0, races, orphans>>

(* -------------------------- copy --------------------------------------- *)
copy ==
    /\ Idle
    /\ \E oldPath \in CopyPaths, newPath \in CopyPaths :
        LET o == Invocation("copy", "copy", oldPath, newPath, <<>>, FALSE, FALSE)
        IN  IF ~(HasSlashPrefix(oldPath) /\ HasSlashPrefix(newPath))
            THEN Rejected(o, "InvalidPath")
            ELSE IF ~BucketSelected(BUCKET_NAME)
            THEN Rejected(o, "BucketNotSelected")
            ELSE Started(o,
                         <<Call("copy", BUCKET_NAME.val,
                                <<Slice(oldPath, 1), Slice(newPath, 1)>>, FALSE)>>,
                         <<>>, NoResult)

copyReply ==
    /\ op.pc = "copy"
    /\ \E fail \in BOOLEAN :
        LET c == Last(calls)
            target == c.bucket
            error == \/ fail
                     \/ target \notin exists
                     \/ c.keys[1] \notin objects[target]
                     \/ ~ValidKey(c.keys[2])
            dataPath == target \o SLASH \o c.keys[2]
        IN  /\ calls' = MarkLast(calls, IF error THEN "error" ELSE "ok")
            /\ objects' = IF error THEN objects
                          ELSE [objects EXCEPT ![target] = @ \cup {c.keys[2]}]
            /\ lastData' = IF error THEN <<>> ELSE <<dataPath>>
            /\ result' = IF error THEN Err("BackendError")
                         ELSE Ok(<<CopyReturn(dataPath, BUCKET_NAME)>>)
    /\ op' = [op EXCEPT !.pc = "done"]
    /\ UNCHANGED <<BUCKET_NAME, BUCKET_URL_PREFIX, exists, tasks, lastSet,
                   objects0, races, orphans>>

(* -------------------------- upload ------------------------------------- *)
upload ==
    /\ Idle
    /\ \E file \in BOOLEAN, uploadPath \in UploadPaths :
        LET o == Invocation("upload", "upload", uploadPath, <<>>, <<>>, file, FALSE)
        IN  IF ~file
            THEN Rejected(o, "InvalidInput")
            ELSE IF ~BucketSelected(BUCKET_NAME)
            THEN Rejected(o, "BucketNotSelected")
            ELSE Started(o, <<Call("upload", BUCKET_NAME.val, <<uploadPath>>, FALSE)>>,
                         <<>>, NoResult)

uploadReply ==
    /\ op.pc = "upload"
    /\ \E fail \in BOOLEAN :
        LET c == Last(calls)
            target == c.bucket
            cleanPath == RemoveEmptyFolders(c.keys[1])
            error == fail \/ target \notin exists \/ ~ValidKey(cleanPath)
        IN  /\ calls' = MarkLast(calls, IF error THEN "error" ELSE "ok")
            /\ objects' = IF error THEN objects
                          ELSE [objects EXCEPT ![target] = @ \cup {cleanPath}]
            /\ lastData' = IF error THEN <<>> ELSE <<cleanPath>>
            /\ result' = IF error THEN Err("BackendError")
                         ELSE Ok(<<UploadReturn(cleanPath)>>)
    /\ op' = [op EXCEPT !.pc = "done"]
    /\ UNCHANGED <<BUCKET_NAME, BUCKET_URL_PREFIX, exists, tasks, lastSet,
                   objects0, races, orphans>>

(* -------------------------- listAllFiles ------------------------------- *)
(* One expansion is the recursion of listAllFiles flattened: path is the   *)
(* prefix whose listing is awaited, stack the files the enclosing loops    *)
(* have still to recurse into, acc the paths returned so far.              *)

\* listAllFiles(path) up to its await: the check, the strip, the request
ListAllFilesEnter(path, stack, acc, made, name) ==
    IF ~BucketSelected(name)
    THEN [path |-> path, stack |-> stack, acc |-> acc, st |-> "fail",
          err |-> "BucketNotSelected", calls |-> made]
    ELSE LET p == StripLeadingSlash(path)
         IN  [path |-> p, stack |-> stack, acc |-> acc, st |-> "wait",
              err |-> "",
              calls |-> Append(made, Call("list", name.val, <<p>>, FALSE))]

\* what the loops do with the files of one listing and what is still to do
PushFiles(files, stack) == files \o stack

\* if (error) throw new StorageError(error)
ListFailedMutant(error) == FALSE
ListFailed(error) == error

\* listAllFiles after its await, up to the next await or to its return
ListAllFilesResume(t, error, names, name) ==
    LET made == MarkLast(t.calls, IF error THEN "error" ELSE "ok")
    IN  IF ListFailed(error)
        THEN [t EXCEPT !.st = "fail", !.err = "BackendError", !.calls = made]
        ELSE LET leaf == Len(names) = 0
                 acc == IF leaf THEN Append(t.acc, t.path) ELSE t.acc
                 stack == IF leaf THEN t.stack
                          ELSE PushFiles(ChildPaths(t.path, names), t.stack)
             IN  IF stack = <<>>
                 THEN [t EXCEPT !.st = "done", !.acc = acc, !.stack = <<>>,
                                !.calls = made]
                 ELSE ListAllFilesEnter(Head(stack), Tail(stack), acc, made, name)

\* Promise.all has rejected: the expansions still awaiting a reply run on,
\* their results no longer looked at
\* an expansion left running: the path and bucket of the list call it
\* awaits, the paths it has yet to visit, and the bucket its delete began in
Orphan(t, start) ==
    [path |-> t.path, stack |-> t.stack, bucket |-> Last(t.calls).bucket,
     start |-> start]
RECURSIVE Orphaned(_, _, _)
Orphaned(ts, start, i) ==
    IF i > Len(ts) THEN EmptyBag
    ELSE (IF ts[i].st = "wait" THEN SetToBag({Orphan(ts[i], start)})
          ELSE EmptyBag) (+) Orphaned(ts, start, i + 1)
Abandoned(ts) ==
    [i \in 1..Len(ts) |-> IF ts[i].st = "wait" THEN [ts[i] EXCEPT !.st = "left"]
                          ELSE ts[i]]
AllDone(ts) == \A i \in 1..Len(ts) : ts[i].st = "done"
Accs(ts) == [i \in 1..Len(ts) |-> ts[i].acc]

listAllFiles ==
    /\ Idle
    /\ \E path \in ListPaths :
        LET o == Invocation("listAllFiles", "list", path, <<>>, <<>>, FALSE, FALSE)
        IN  IF ~BucketSelected(BUCKET_NAME)
            THEN Rejected(o, "BucketNotSelected")
            ELSE Started(o, <<>>,
                         <<ListAllFilesEnter(path, <<>>, <<>>, <<>>, BUCKET_NAME)>>,
                         NoResult)

(* -------------------------- delete ------------------------------------- *)
\* for (let path of paths) if (path[0] !== "/") throw
AllSlashPrefixed(paths) == \A i \in 1..Len(paths) : HasSlashPrefix(paths[i])

delete ==
    /\ Idle
    /\ \E paths \in SeqsUpTo(DeletePaths, MaxDeletePaths) :
        /\ BagCardinality(orphans) + Len(paths) <= MaxOrphans + 1
        /\ LET o == Invocation("delete", "list", <<>>, <<>>, paths, FALSE, FALSE)
           IN  IF ~BucketSelected(BUCKET_NAME)
               THEN Rejected(o, "BucketNotSelected")
               ELSE IF ~AllSlashPrefixed(paths)
               THEN Rejected(o, "InvalidPath")
               ELSE IF Len(paths) = 0
               THEN Started([o EXCEPT !.pc = "done"], <<>>, <<>>, Ok(<<>>))
               ELSE Started(o, <<>>,
                            [i \in 1..Len(paths) |->
                               ListAllFilesEnter(paths[i], <<>>, <<>>, <<>>,
                                                 BUCKET_NAME)],
                            NoResult)

\* one list response, for listAllFiles called directly and for the
\* expansions of delete; Promise.all rejects with the first rejection, and
\* the method's promise with it, and resolves, in input order, when every
\* expansion has resolved
listReply ==
    /\ op.pc = "list"
    /\ \E i \in 1..Len(tasks), fail \in BOOLEAN :
        /\ tasks[i].st = "wait"
        /\ LET t == tasks[i]
               target == Last(t.calls).bucket
               error == fail \/ target \notin exists
               names == IF error THEN <<>> ELSE ChildNames(objects[target], t.path)
               t2 == ListAllFilesResume(t, error, names, BUCKET_NAME)
               ts == [tasks EXCEPT ![i] = t2]
           IN  IF t2.st = "fail"
               THEN /\ tasks' = Abandoned(ts)
                    /\ orphans' = orphans (+) Orphaned(ts, op.start.val, 1)
                    /\ result' = Err(t2.err)
                    /\ calls' = calls
                    /\ op' = [op EXCEPT !.pc = "done"]
               ELSE IF ~AllDone(ts)
               THEN /\ tasks' = ts
                    /\ UNCHANGED <<result, calls, op, orphans>>
               ELSE IF op.name = "listAllFiles"
               THEN /\ tasks' = ts
                    /\ result' = Ok(t2.acc)
                    /\ calls' = calls
                    /\ op' = [op EXCEPT !.pc = "done"]
                    /\ orphans' = orphans
               ELSE /\ tasks' = ts
                    /\ result' = result
                    /\ calls' = <<Call("remove", BUCKET_NAME.val,
                                       Flat(Accs(ts)), FALSE)>>
                    /\ op' = [op EXCEPT !.pc = "remove"]
                    /\ orphans' = orphans
    /\ UNCHANGED <<BUCKET_NAME, BUCKET_URL_PREFIX, exists, objects, lastData,
                   lastSet, objects0, races>>

\* one list response of an expansion whose delete has rejected already: it
\* recurses on, reading the bucket name as it is then
orphanReply ==
    \E o \in BagToSet(orphans), fail \in BOOLEAN :
        LET error == fail \/ o.bucket \notin exists
            names == IF error THEN <<>> ELSE ChildNames(objects[o.bucket], o.path)
            t == [path |-> o.path, stack |-> o.stack, acc |-> <<>>,
                  st |-> "wait", err |-> "",
                  calls |-> <<Call("list", o.bucket, <<o.path>>, FALSE)>>]
            t2 == ListAllFilesResume(t, error, names, BUCKET_NAME)
            others == orphans (-) SetToBag({o})
        IN  /\ orphans' =
                 IF t2.st = "wait"
                 THEN others (+) SetToBag({Orphan(t2, o.start)})
                 ELSE others
            /\ UNCHANGED <<BUCKET_NAME, BUCKET_URL_PREFIX, exists, objects, op,
                           tasks, calls, result, lastData, lastSet, objects0,
                           races>>

removeReply ==
    /\ op.pc = "remove"
    /\ \E fail \in BOOLEAN :
        LET c == Last(calls)
            target == c.bucket
            error == fail \/ target \notin exists
            data == IF error THEN <<>> ELSE Removed(objects[target], c.keys)
        IN  /\ calls' = MarkLast(calls, IF error THEN "error" ELSE "ok")
            /\ objects' = IF error THEN objects
                          ELSE [objects EXCEPT ![target] =
                                  @ \ {data[j] : j \in 1..Len(data)}]
            /\ lastData' = data
            /\ result' = IF error THEN Err("BackendError")
                         ELSE Ok(DeleteReturn(data))
    /\ op' = [op EXCEPT !.pc = "done"]
    /\ UNCHANGED <<BUCKET_NAME, BUCKET_URL_PREFIX, exists, tasks, lastSet,
                   objects0, races, orphans>>

(* -------------------------- specifications ----------------------------- *)
\* callers that await each operation before they start the next
Next ==
    \/ setBucketName
    \/ init
    \/ initBucket
    \/ createBucketReply
    \/ updateBucketReply
    \/ destroyBucket
    \/ emptyBucketReply
    \/ deleteBucketReply
    \/ copy
    \/ copyReply
    \/ upload
    \/ uploadReply
    \/ listAllFiles
    \/ listReply
    \/ orphanReply
    \/ delete
    \/ removeReply

Spec == Init /\ [][Next]_vars

\* callers that also call setBucketName while an operation is in flight
NextRace == Next \/ setBucketNameInFlight

SpecRace == Init /\ [][NextRace]_vars

(* -------------------------- what the claims speak of ------------------ *)
BucketOps ==
    {"initBucket", "destroyBucket", "copy", "upload", "listAllFiles", "delete"}

Finished == op.pc = "done"

\* no bucket is selected: the name is undefined or the empty string
Unselected(name) == ~name.some \/ Len(name.val) = 0

SlashFirst(p) == p # <<>> /\ Head(p) = "/"

\* the backend form of a user-facing path
BackendForm(p) == IF SlashFirst(p) THEN Tail(p) ELSE p

ListCalls == UNION { { tasks[i].calls[j] : j \in 1..Len(tasks[i].calls) } :
                     i \in 1..Len(tasks) }
OtherCalls == { calls[j] : j \in 1..Len(calls) }
NoBackendCall == ListCalls = {} /\ OtherCalls = {}

\* the node below a node of the listing
NodeJoin(node, name) == IF node = <<>> THEN name ELSE node \o SLASH \o name

\* the childless nodes under a node, depth first in listing order
RECURSIVE LeafKeys(_, _)
RECURSIVE LeafKeysFrom(_, _, _, _)
LeafKeys(stored, node) ==
    LET names == ChildNames(stored, node)
    IN  IF names = <<>> THEN <<node>> ELSE LeafKeysFrom(stored, node, names, 1)
LeafKeysFrom(stored, node, names, i) ==
    IF i > Len(names) THEN <<>>
    ELSE LeafKeys(stored, NodeJoin(node, names[i]))
            \o LeafKeysFrom(stored, node, names, i + 1)

RECURSIVE LeafKeysOfAll(_, _, _)
LeafKeysOfAll(stored, paths, i) ==
    IF i > Len(paths) THEN <<>>
    ELSE LeafKeys(stored, BackendForm(paths[i]))
            \o LeafKeysOfAll(stored, paths, i + 1)

\* a "/"-prefixed path with no trailing and no repeated "/"
WellFormedPath(p) ==
    /\ SlashFirst(p)
    /\ p[Len(p)] # "/"
    /\ \A i \in 1..(Len(p) - 1) : ~(p[i] = "/" /\ p[i + 1] = "/")

(* -------------------------- claims ------------------------------------- *)

\* C1: a listAllFiles(p) that resolves, resolves with the backend-form
\* paths of the childless nodes under p (leading "/" of p stripped), depth
\* first in the backend's listing order; a p without children gives [p], and
\* "/d" over the keys d/a and d/b/c gives [d/a, d/b/c].
C1_ListAllFilesLeaves ==
    (op.name = "listAllFiles" /\ Finished /\ result.st = "ok") =>
        LET stored == objects[op.start.val]
            node == BackendForm(op.a1)
        IN  /\ result.val = LeafKeys(stored, node)
            /\ ChildNames(stored, node) = <<>> => result.val = <<node>>
            /\ (op.a1 = <<"/","d">> /\ {K_da, K_dbc} \subseteq stored)
                    => result.val = <<K_da, K_dbc>>

C1_Witness ==
    /\ op.name = "listAllFiles"
    /\ Finished
    /\ op.a1 = <<"/","d">>
    /\ result = Ok(<<K_da, K_dbc>>)

\* C2: delete(paths), paths non-empty and all "/"-prefixed, with a bucket
\* selected: at most one backend call other than the lists is made, a
\* remove; once every expansion has resolved, in whatever order, exactly
\* that one remove has been issued, for the concatenation in input order of
\* the listings of the paths, duplicates kept; and a delete that resolves
\* resolves with the names the backend reported removed, each behind a "/".
C2_DeleteOneRemove ==
    (op.name = "delete" /\ Len(tasks) > 0) =>
        /\ Len(calls) <= 1
        /\ \A c \in OtherCalls : c.fn = "remove"
        /\ Len(tasks) = Len(op.paths)
        /\ AllDone(tasks) =>
            /\ Len(calls) = 1
            /\ calls[1].bucket = op.start.val
            /\ calls[1].keys = LeafKeysOfAll(objects0[op.start.val], op.paths, 1)
        /\ (Finished /\ result.st = "ok") =>
            /\ AllDone(tasks)
            /\ Len(result.val) = Len(lastData)
            /\ \A j \in 1..Len(lastData) : result.val[j] = SLASH \o lastData[j]

C2_Witness ==
    /\ op.name = "delete"
    /\ Finished
    /\ op.paths = << <<"/","d">>, <<"/","d">> >>
    /\ Len(calls) = 1
    /\ calls[1].keys = <<K_da, K_dbc, K_da, K_dbc>>
    /\ result = Ok(<< <<"/","d","/","a">>, <<"/","d","/","b","/","c">> >>)

\* C3 as claimed: each of the six operations, invoked with no bucket
\* selected, rejects with BucketNotSelected whatever its arguments, before
\* any backend call.
C3_AlwaysBucketNotSelected ==
    (op.name \in BucketOps /\ Unselected(op.start)) =>
        /\ Finished
        /\ result = Err("BucketNotSelected")
        /\ NoBackendCall

\* C3 amended: each of the six operations, invoked with no bucket selected,
\* rejects before any backend call; with BucketNotSelected, except that copy
\* given a path without the "/" prefix rejects with InvalidPath and upload
\* given no content rejects with the missing-content error.
C3_RejectsBeforeBackend ==
    (op.name \in BucketOps /\ Unselected(op.start)) =>
        /\ Finished
        /\ NoBackendCall
        /\ result =
            Err(IF op.name = "copy" /\ ~(SlashFirst(op.a1) /\ SlashFirst(op.a2))
                THEN "InvalidPath"
                ELSE IF op.name = "upload" /\ ~op.file
                THEN "InvalidInput"
                ELSE "BucketNotSelected")

C3_Witness ==
    /\ op.name = "delete"
    /\ op.start = Some(<<>>)
    /\ op.paths = << <<"/","d">> >>
    /\ result = Err("BucketNotSelected")

MalformedCopy == op.name = "copy" /\ ~(SlashFirst(op.a1) /\ SlashFirst(op.a2))
MalformedDelete ==
    op.name = "delete" /\ \E i \in 1..Len(op.paths) : ~SlashFirst(op.paths[i])

\* C4 as claimed: copy with a path that lacks the "/" prefix, and delete
\* with any such element, reject with InvalidPath and make no backend call.
C4_AlwaysInvalidPath ==
    (MalformedCopy \/ MalformedDelete) =>
        /\ Finished
        /\ result = Err("InvalidPath")
        /\ NoBackendCall

\* C4 amended: copy with a path that lacks the "/" prefix rejects with
\* InvalidPath; delete with any such element rejects with InvalidPath when a
\* bucket is selected and with BucketNotSelected when none is; neither makes
\* a backend call, so no list and no remove is issued for the well-formed
\* paths of that delete.
C4_MalformedRejected ==
    /\ MalformedCopy =>
        /\ Finished
        /\ result = Err("InvalidPath")
        /\ NoBackendCall
    /\ MalformedDelete =>
        /\ Finished
        /\ NoBackendCall
        /\ result = Err(IF Unselected(op.start) THEN "BucketNotSelected"
                        ELSE "InvalidPath")

C4_Witness ==
    /\ op.name = "delete"
    /\ op.start = Some(B0)
    /\ op.paths = << <<"/","d">>, <<"a">> >>
    /\ result = Err("InvalidPath")
    /\ NoBackendCall

\* C5: initBucket with a bucket selected calls createBucket first, calls
\* updateBucket, with the same name and options, exactly when createBucket
\* reported an error, and rejects, with BackendError, exactly when both
\* reported an error; so it resolves when create is refused for a bucket
\* that exists and update is accepted.
C5_InitBucketCreateThenUpdate ==
    (op.name = "initBucket" /\ ~Unselected(op.start)) =>
        /\ Len(calls) \in {1, 2}
        /\ calls[1] = [Call("createBucket", op.start.val, <<>>, op.public)
                         EXCEPT !.res = calls[1].res]
        /\ (Len(calls) = 2) <=> (calls[1].res = "error")
        /\ Len(calls) = 2 =>
             calls[2] = [Call("updateBucket", op.start.val, <<>>, op.public)
                           EXCEPT !.res = calls[2].res]
        /\ Finished =>
            /\ result.st \in {"ok", "err"}
            /\ (result.st = "err") <=>
                 (Len(calls) = 2 /\ calls[1].res = "error" /\ calls[2].res = "error")
            /\ result.st = "err" => result = Err("BackendError")

C5_Witness ==
    /\ op.name = "initBucket"
    /\ Finished
    /\ op.start = Some(B0)
    /\ B0 \in exists
    /\ Len(calls) = 2
    /\ calls[1].res = "error"
    /\ calls[2].res = "ok"
    /\ result = Ok(<<>>)

\* C6 as claimed: destroyBucket with a bucket selected rejects whenever
\* emptyBucket or deleteBucket reported an error.
C6_DestroyBucketPropagates ==
    (op.name = "destroyBucket" /\ Finished /\ ~Unselected(op.start)) =>
        /\ Len(calls) = 2
        /\ calls[1].fn = "emptyBucket"
        /\ calls[2].fn = "deleteBucket"
        /\ (\E c \in OtherCalls : c.res = "error") => result.st = "err"

\* C7 as claimed: a upload that resolves, given any "/"-prefixed path,
\* resolves with that path; a copy that resolves handed the backend both
\* keys without their "/" and resolves with the new path.
C7_ReturnsGivenPath ==
    /\ (op.name = "upload" /\ Finished /\ result.st = "ok" /\ SlashFirst(op.a1))
         => result.val = <<op.a1>>
    /\ (op.name = "copy" /\ Finished /\ result.st = "ok")
         => /\ calls[1].keys = <<Tail(op.a1), Tail(op.a2)>>
            /\ result.val = <<op.a2>>

\* C7 amended: an upload that resolves, resolves with "/" and the path the
\* backend reported, which is the given path when that is "/"-prefixed and
\* has no trailing and no repeated "/"; a copy that resolves handed the
\* backend both keys without their "/" and resolves with the new path.
C7_ReturnsWellFormedPath ==
    /\ (op.name = "upload" /\ Finished /\ result.st = "ok")
         => /\ result.val = <<SLASH \o lastData[1]>>
            /\ WellFormedPath(op.a1) => result.val = <<op.a1>>
    /\ (op.name = "copy" /\ Finished /\ result.st = "ok")
         => /\ calls[1].keys = <<Tail(op.a1), Tail(op.a2)>>
            /\ result.val = <<op.a2>>

C7_Witness ==
    /\ op.name = "upload"
    /\ Finished
    /\ op.a1 = <<"/","d","/","a">>
    /\ result = Ok(<< <<"/","d","/","a">> >>)

\* C8 as claimed: in every reachable state getBucketName() is the argument
\* of the last setBucketName call, or unset if there was none; the URL
\* prefix is unset exactly when the name is, and is otherwise the public URL
\* prefix of the bucket named now.
C8_NameAndPrefixAgree ==
    /\ getBucketName = lastSet
    /\ getBucketURLPrefix.some <=> getBucketName.some
    /\ getBucketName.some =>
         getBucketURLPrefix = Some(<<"U">> \o getBucketName.val \o SLASH)

\* C9: a list call that reports an error, at whatever depth, fails its
\* expansion; a failed expansion rejects listAllFiles and delete, with
\* BackendError and no partial result, and in delete no remove call is
\* issued and no object removed.
C9_ListErrorFailsAll ==
    (op.name \in {"listAllFiles", "delete"}) =>
        /\ \A i \in 1..Len(tasks) :
             (\E j \in 1..Len(tasks[i].calls) : tasks[i].calls[j].res = "error")
                => tasks[i].st = "fail"
        /\ (\E i \in 1..Len(tasks) : tasks[i].st = "fail") =>
            /\ Finished
            /\ result = Err("BackendError")
            /\ OtherCalls = {}
            /\ objects = objects0

C9_Witness ==
    /\ op.name = "delete"
    /\ Finished
    /\ Len(tasks) = 2
    /\ tasks[1].st = "done"
    /\ tasks[1].acc = <<K_da, K_dbc>>
    /\ tasks[2].st = "fail"
    /\ Len(tasks[2].calls) > 1
    /\ result = Err("BackendError")

\* C10 as claimed: every backend call of one delete, the lists and the
\* remove, goes to the bucket that was selected when the delete started.
C10_DeleteKeepsItsBucket ==
    /\ (op.name = "delete" /\ ~Unselected(op.start)) =>
            \A c \in ListCalls \cup OtherCalls : c.bucket = op.start.val
    /\ \A o \in BagToSet(orphans) : o.bucket = o.start

=============================================================================
